---- MODULE Spec2Model ----
(***************************************************************************)
(* A model of src/cli.rs of safe-authenticator-cli: the credential         *)
(* resolution of get_login_details, the consent prompt prompt_to_allow,    *)
(* the machine-readable listing parsable_list_authed_apps and the          *)
(* orchestration of run.                                                   *)
(*                                                                         *)
(* Text is a sequence of one-character strings, so that quoting, escaping, *)
(* trimming and case folding are computed and not assumed.  An             *)
(* Option<T> is a sequence of at most one element: None is <<>> and        *)
(* Some(v) is <<v>>.                                                       *)
(***************************************************************************)
EXTENDS Naturals, Sequences, FiniteSets, TLC

VARIABLES
    pc,        \* position of the program
    args,      \* CmdArgs
    env,       \* Environment, as envy::from_env deserialises it
    login,     \* what get_login_details returned (or how it ended)
    io,        \* every effect performed so far, in order
    req,       \* Option<IpcReq> handed to prompt_to_allow
    stdin,     \* the standard input stream
    decision,  \* what prompt_to_allow returned (or how it ended)
    authed,    \* the Vec<AuthedAppsList> handed to the listing
    listing,   \* the text parsable_list_authed_apps wrote to stdout
    file,      \* Option: the state of the config file that was opened
    tty,       \* Option: what the terminal yielded to the credential prompts
    line,      \* Option: the line read_line yielded to prompt_to_allow
    result     \* how run ended

vars == <<pc, args, env, login, io, req, stdin, decision, authed, listing,
          file, tty, line, result>>

----------------------------------------------------------------------------
(* Bounds of the model *)

MaxCredLen == 1
MaxLineLen == 3
MaxApps == 2
MaxConts == 2

----------------------------------------------------------------------------
(* Text helpers *)

None == <<>>
Some(v) == <<v>>
IsSome(o) == Len(o) = 1
Unwrap(o) == o[1]

Range(s) == {s[i] : i \in 1..Len(s)}

TextsUpTo(alphabet, n) == UNION {[1..k -> alphabet] : k \in 0..n}

Last(s) == s[Len(s)]
Front(s) == SubSeq(s, 1, Len(s) - 1)

QUOTE == "\""
BACKSLASH == "\\"
TAB == "\t"
LF == "\n"
CR == "\r"

(* String::is_empty *)
is_empty(s) == Len(s) = 0

----------------------------------------------------------------------------
(* get_login_details *)

CredAlphabet == {"s", "p", QUOTE}
CredTexts == TextsUpTo(CredAlphabet, MaxCredLen)

(* struct Environment: two Option<String> *)
Environments ==
    [safe_auth_secret : {None} \cup {Some(t) : t \in CredTexts},
     safe_auth_password : {None} \cup {Some(t) : t \in CredTexts}]

(* serde_json::Value, as far as the config file needs it: a string or null *)
JsonString(t) == [t |-> "String", s |-> t]
JsonNull == [t |-> "Null", s |-> <<>>]
JsonValues == {JsonString(t) : t \in CredTexts} \cup {JsonNull}

(* The document of the config file: an object with or without the two keys  *)
(* (keys of other names are not looked at), or a value that is no object.  *)
JsonObjects ==
    {[obj |-> TRUE, fields |-> f] :
        f \in [{"secret", "password"} -> {None} \cup {Some(v) : v \in JsonValues}]}
JsonNotObject ==
    [obj |-> FALSE, fields |-> [k \in {"secret", "password"} |-> None]]
JsonDocs == JsonObjects \cup {JsonNotObject}

(* What the file at the config path is when it is opened *)
FileUnreadable == [st |-> "unreadable", json |-> JsonNotObject]
FileMalformed == [st |-> "malformed", json |-> JsonNotObject]
FileJson(j) == [st |-> "json", json |-> j]
FileStates == {FileUnreadable, FileMalformed} \cup {FileJson(j) : j \in JsonDocs}

(* What the two rpassword::read_password_from_tty calls yield: Err or a text *)
TtyStates ==
    [secret : {None} \cup {Some(t) : t \in CredTexts},
     password : {None} \cup {Some(t) : t \in CredTexts}]

(* serde_json::Value::get(key): Some for a key of an object, else None *)
JsonGet(json, key) == IF json.obj THEN json.fields[key] ELSE None

(* serde_json's string escaping of one character *)
JsonEscapeChar(c) ==
    CASE c = QUOTE -> <<BACKSLASH, QUOTE>>
      [] c = BACKSLASH -> <<BACKSLASH, BACKSLASH>>
      [] c = LF -> <<BACKSLASH, "n">>
      [] c = CR -> <<BACKSLASH, "r">>
      [] c = TAB -> <<BACKSLASH, "t">>
      [] OTHER -> <<c>>

RECURSIVE JsonEscape(_)
JsonEscape(s) ==
    IF s = <<>> THEN <<>> ELSE JsonEscapeChar(Head(s)) \o JsonEscape(Tail(s))

(* serde_json::Value::to_string(): the value serialised as JSON text *)
ValueToString(v) ==
    IF v.t = "String"
    THEN <<QUOTE>> \o JsonEscape(v.s) \o <<QUOTE>>
    ELSE <<"n", "u", "l", "l">>

(* Results of get_login_details.  The Err values stand for the messages:   *)
(*   InconsistentEnv     "Both the secret and password environment         *)
(*                        variables must be set to be used for SAFE login."*)
(*   ConfigUnreadable    "Error reading config file. ..."                  *)
(*   ConfigFieldMissing  "The config files's secret|password field cannot  *)
(*                        be empty"                                        *)
(*   EmptyCredential     "Neither the secret nor password can be empty."   *)
(* Panic is an unwrap() on an Err: the process aborts.                     *)
NotCalled == [kind |-> "NotCalled", err |-> "", secret |-> <<>>, password |-> <<>>]
OkDetails(s, p) == [kind |-> "Ok", err |-> "", secret |-> s, password |-> p]
ErrDetails(e) == [kind |-> "Err", err |-> e, secret |-> <<>>, password |-> <<>>]
PanicDetails == [kind |-> "Panic", err |-> "", secret |-> <<>>, password |-> <<>>]

(* lines 143-151: each variable that is set replaces the empty default *)
EnvSecret(e) ==
    IF IsSome(e.safe_auth_secret) THEN Unwrap(e.safe_auth_secret) ELSE <<>>
EnvPassword(e) ==
    IF IsSome(e.safe_auth_password) THEN Unwrap(e.safe_auth_password) ELSE <<>>

EnvInfo(e) ==
    (IF IsSome(e.safe_auth_secret) THEN <<"info:secret_from_env">> ELSE <<>>)
    \o (IF IsSome(e.safe_auth_password) THEN <<"info:password_from_env">> ELSE <<>>)

(* A faulty variant of EnvInconsistent: only a lone secret is reported *)
EnvInconsistentSecretOnly(the_secret, the_password) ==
    ~is_empty(the_secret) /\ is_empty(the_password)

(* line 153: the_secret.is_empty() ^ the_password.is_empty() *)
EnvInconsistent(the_secret, the_password) ==
    is_empty(the_secret) # is_empty(the_password)

(* A faulty variant of NeedOtherSource: the other sources are consulted always *)
NeedOtherSourceAlways(the_secret, the_password) == TRUE

(* line 157: the_secret.is_empty() || the_password.is_empty() *)
NeedOtherSource(the_secret, the_password) ==
    is_empty(the_secret) \/ is_empty(the_password)

(* lines 188-199: the final emptiness check and the result *)
FinalCheck(the_secret, the_password) ==
    IF is_empty(the_secret) \/ is_empty(the_password)
    THEN ErrDetails("EmptyCredential")
    ELSE OkDetails(the_secret, the_password)

(* A faulty variant of FromConfig: a missing key leaves the field empty *)
FromConfigLenient(f) ==
    IF f.st = "unreadable" THEN ErrDetails("ConfigUnreadable")
    ELSE IF f.st = "malformed" THEN PanicDetails
    ELSE LET secret == JsonGet(f.json, "secret")
             password == JsonGet(f.json, "password")
         IN  FinalCheck(IF IsSome(secret) THEN ValueToString(Unwrap(secret)) ELSE <<>>,
                        IF IsSome(password) THEN ValueToString(Unwrap(password)) ELSE <<>>)

(* lines 159-180 and 188-199: the config file branch, for the file state f *)
FromConfig(f) ==
    IF f.st = "unreadable" THEN ErrDetails("ConfigUnreadable")
    ELSE IF f.st = "malformed" THEN PanicDetails
    ELSE LET secret == JsonGet(f.json, "secret")
             password == JsonGet(f.json, "password")
         IN  IF ~IsSome(secret) THEN ErrDetails("ConfigFieldMissing")
             ELSE IF ~IsSome(password) THEN ErrDetails("ConfigFieldMissing")
             ELSE FinalCheck(ValueToString(Unwrap(secret)),
                             ValueToString(Unwrap(password)))

(* The effects of the config file branch: the open, then the warning once  *)
(* the document has parsed                                                  *)
ConfigEffects(f) ==
    <<"fs:open_config">> \o
    (IF f.st = "json" THEN <<"fs:parsed_config", "stderr:plaintext_warning">>
     ELSE IF f.st = "malformed" THEN <<"panic">>
     ELSE <<>>)

(* lines 183-184 and 188-199: the terminal branch, for the terminal state t *)
FromTty(t) ==
    IF ~IsSome(t.secret) \/ ~IsSome(t.password) THEN PanicDetails
    ELSE FinalCheck(Unwrap(t.secret), Unwrap(t.password))

(* The effects of the terminal branch: the second read happens only after   *)
(* the first has succeeded                                                   *)
TtyEffects(t) ==
    <<"tty:read_secret">> \o
    (IF ~IsSome(t.secret) THEN <<"panic">>
     ELSE <<"tty:read_password">> \o
          (IF ~IsSome(t.password) THEN <<"panic">> ELSE <<>>))

----------------------------------------------------------------------------
(* prompt_to_allow *)

(* The variants of IpcReq *)
IpcReqs == {"Auth", "Containers", "ShareMData", "Unregistered"}

LineAlphabet == {"y", "Y", "N", "e", "s", CR, LF}

(* The standard input: the characters still to be read, or a stream whose   *)
(* read fails (an I/O error, bytes that are no UTF-8)                       *)
StdinBroken == [ok |-> FALSE, data |-> <<>>]
StdinWith(d) == [ok |-> TRUE, data |-> d]
StdinStates == {StdinBroken} \cup {StdinWith(d) : d \in TextsUpTo(LineAlphabet, MaxLineLen)}

(* Stdin::read_line: the characters up to and including the first newline, *)
(* or all of them when there is none                                        *)
RECURSIVE read_line(_)
read_line(data) ==
    IF data = <<>> THEN <<>>
    ELSE IF Head(data) = LF THEN <<LF>>
    ELSE <<Head(data)>> \o read_line(Tail(data))

(* char::to_lowercase on the characters of LineAlphabet *)
LowerChar(c) ==
    CASE c = "Y" -> "y"
      [] c = "N" -> "n"
      [] OTHER -> c

(* str::to_lowercase *)
to_lowercase(s) == [i \in 1..Len(s) |-> LowerChar(s[i])]

(* lines 348-353: if let Some(c) = prompt.chars().next_back() { prompt.pop() } *)
PopIfLast(prompt, c) ==
    IF Len(prompt) > 0 /\ Last(prompt) = c THEN Front(prompt) ELSE prompt

(* A faulty variant of Allowed: any answer that starts with y is taken as consent *)
AllowedByPrefix(prompt) ==
    Len(prompt) > 0 /\ LowerChar(Head(prompt)) = "y"

(* line 355: prompt.to_lowercase() == "y" *)
Allowed(prompt) == to_lowercase(prompt) = <<"y">>

(* A faulty variant of AutoAllowed: no variant is let through unasked *)
AutoAllowedNever(r) == FALSE

(* lines 336-339: unregistered requests are allowed without asking *)
AutoAllowed(r) == r = "Unregistered"

(* lines 252-335: what is printed for the request before the question.  The *)
(* table's cells are not modelled, only that it is printed.                 *)
Render(r) ==
    CASE r = "Auth" -> <<"stdout:auth_request_received", "stdout:table">>
      [] r = "Containers" ->
            <<"stdout:containers_request_received", "stdout:cont_req_debug", "stdout:table">>
      [] r = "ShareMData" -> <<"stdout:share_mdata_request_received", "stdout:table">>
      [] OTHER -> <<>>

(* prompt_to_allow(req) on the standard input in: what it returns ("true", *)
(* "false", or "panic" for the expect() on a failed read), what it does,    *)
(* the line it read and the input it leaves                                 *)
PromptToAllow(r, in) ==
    IF AutoAllowed(r)
    THEN [ret |-> "true", out |-> <<>>, line |-> None, rest |-> in]
    ELSE LET asked == Render(r) \o <<"stdout:allow_prompt", "stdout:flush", "stdin:read_line">>
         IN  IF ~in.ok
             THEN [ret |-> "panic", out |-> asked \o <<"panic">>, line |-> None, rest |-> in]
             ELSE LET prompt0 == read_line(in.data)
                      prompt1 == PopIfLast(prompt0, LF)
                      prompt2 == PopIfLast(prompt1, CR)
                      rest == StdinWith(SubSeq(in.data, Len(prompt0) + 1, Len(in.data)))
                  IN  IF Allowed(prompt2)
                      THEN [ret |-> "true", out |-> asked \o <<"stdout:will_be_allowed">>,
                            line |-> Some(prompt0), rest |-> rest]
                      ELSE [ret |-> "false", out |-> asked \o <<"stdout:will_be_denied">>,
                            line |-> Some(prompt0), rest |-> rest]

----------------------------------------------------------------------------
(* parsable_list_authed_apps *)

Str_a1 == <<"a", "1">>
Str_App == <<"A", "p", "p">>
Str_V == <<"V">>
Str_docs == <<"d", "o", "c", "s">>
Str_pub == <<"p", "u", "b">>

(* The names of the Permission variants, as #[derive(Debug)] prints them *)
PermDebug(perm) ==
    CASE perm = "Read" -> <<"R", "e", "a", "d">>
      [] perm = "Insert" -> <<"I", "n", "s", "e", "r", "t">>
      [] perm = "Update" -> <<"U", "p", "d", "a", "t", "e">>
      [] perm = "Delete" -> <<"D", "e", "l", "e", "t", "e">>
      [] perm = "ManagePermissions" ->
            <<"M", "a", "n", "a", "g", "e", "P", "e", "r", "m", "i", "s", "s", "i", "o", "n", "s">>

(* One (container, permissions) entry of AuthedAppsList::perms, the          *)
(* permissions in the order the set's iterator yields them                  *)
ContEntries ==
    {[cont |-> Str_docs, perms |-> <<"Insert", "Update">>],
     [cont |-> Str_docs, perms |-> <<>>],
     [cont |-> Str_pub, perms |-> <<"Insert">>]}

(* AuthedAppsList::app: id, name and vendor *)
AppIdentities ==
    {[id |-> Str_a1, name |-> Str_App, vendor |-> Str_V],
     [id |-> <<"b">>, name |-> <<"x", QUOTE>>, vendor |-> <<"W", TAB>>]}

SeqsUpTo(S, n) == UNION {[1..k -> S] : k \in 0..n}

AuthedApps ==
    {[app |-> a, perms |-> c] : a \in AppIdentities, c \in SeqsUpTo(ContEntries, MaxConts)}

(* Vec<AuthedAppsList> *)
AuthedLists == SeqsUpTo(AuthedApps, MaxApps)

(* <str as Debug>: the escape of one character *)
DebugEscapeChar(c) ==
    CASE c = QUOTE -> <<BACKSLASH, QUOTE>>
      [] c = BACKSLASH -> <<BACKSLASH, BACKSLASH>>
      [] c = LF -> <<BACKSLASH, "n">>
      [] c = CR -> <<BACKSLASH, "r">>
      [] c = TAB -> <<BACKSLASH, "t">>
      [] OTHER -> <<c>>

RECURSIVE DebugEscape(_)
DebugEscape(s) ==
    IF s = <<>> THEN <<>> ELSE DebugEscapeChar(Head(s)) \o DebugEscape(Tail(s))

(* format!("{:?}", s) of a String: quoted and escaped *)
StrDebug(s) == <<QUOTE>> \o DebugEscape(s) \o <<QUOTE>>

(* line 225: "APP ID\tNAME\tVENDOR\tPERMISSIONS" *)
ListHeader ==
    <<"A", "P", "P", " ", "I", "D", TAB, "N", "A", "M", "E", TAB,
      "V", "E", "N", "D", "O", "R", TAB,
      "P", "E", "R", "M", "I", "S", "S", "I", "O", "N", "S">>

(* A faulty variant of HasMore: a separator after every element *)
HasMoreAlways(it) == TRUE

(* lines 238 and 242: it.size_hint().0 > 0, on what the iterator has left *)
HasMore(it) == Len(it) > 0

(* lines 236-241: while let Some(perm) = it2.next() *)
RECURSIVE PermsLoop(_, _)
PermsLoop(row, it2) ==
    IF it2 = <<>> THEN row
    ELSE LET perm == Head(it2)
             left == Tail(it2)
             row1 == row \o PermDebug(perm)
         IN  PermsLoop(IF HasMore(left) THEN row1 \o <<"|">> ELSE row1, left)

(* lines 233-245: while let Some((cont, perms)) = it.next() *)
RECURSIVE ContsLoop(_, _)
ContsLoop(row, it) ==
    IF it = <<>> THEN row
    ELSE LET entry == Head(it)
             left == Tail(it)
             row1 == PermsLoop(row \o StrDebug(entry.cont) \o <<":">>, entry.perms)
         IN  ContsLoop(IF HasMore(left) THEN row1 \o <<",">> ELSE row1, left)

(* lines 228-246: the line println!("{}]", row) writes for one app *)
AppRow(app_info) ==
    ContsLoop(app_info.app.id \o <<TAB>> \o StrDebug(app_info.app.name) \o <<TAB>>
                \o StrDebug(app_info.app.vendor) \o <<TAB, "[">>,
              app_info.perms)
    \o <<"]", LF>>

(* lines 226-247: for app_info in all_app_iterator *)
RECURSIVE AppsLoop(_, _)
AppsLoop(out, apps) ==
    IF apps = <<>> THEN out ELSE AppsLoop(out \o AppRow(Head(apps)), Tail(apps))

(* parsable_list_authed_apps: everything it writes to stdout *)
ParsableListAuthedApps(authed_apps) ==
    AppsLoop(ListHeader \o <<LF>>, authed_apps)

----------------------------------------------------------------------------
(* The arguments, and the three functions as programs of their own *)

NoArgs ==
    [config_file_str |-> None, req_str |-> None, invite |-> None, balance |-> FALSE,
     apps |-> FALSE, app_id |-> None, pretty |-> FALSE, port |-> None]
OptArgs == {None, Some("given")}
AllArgs ==
    [config_file_str : OptArgs, req_str : OptArgs, invite : OptArgs, balance : BOOLEAN,
     apps : BOOLEAN, app_id : OptArgs, pretty : BOOLEAN, port : OptArgs]

(* Everything but the inputs, before anything has run *)
Fresh ==
    /\ login = NotCalled
    /\ io = <<>>
    /\ decision = "none"
    /\ listing = <<>>
    /\ file = None
    /\ tty = None
    /\ line = None
    /\ result = "running"

(* get_login_details when the environment decides: lines 138-157, 188-199 *)
GldFromEnv ==
    /\ pc = "get_login_details"
    /\ LET the_secret == EnvSecret(env)
           the_password == EnvPassword(env)
       IN  /\ EnvInconsistent(the_secret, the_password)
                \/ ~NeedOtherSource(the_secret, the_password)
           /\ login' = IF EnvInconsistent(the_secret, the_password)
                       THEN ErrDetails("InconsistentEnv")
                       ELSE FinalCheck(the_secret, the_password)
    /\ io' = io \o <<"call:get_login_details">> \o EnvInfo(env)
    /\ pc' = "login_returned"
    /\ UNCHANGED <<args, env, req, stdin, decision, authed, listing, file, tty, line, result>>

(* get_login_details when the config file decides: lines 138-180, 188-199 *)
GldFromConfig(files) ==
    /\ pc = "get_login_details"
    /\ ~EnvInconsistent(EnvSecret(env), EnvPassword(env))
    /\ NeedOtherSource(EnvSecret(env), EnvPassword(env))
    /\ IsSome(args.config_file_str)
    /\ \E f \in files :
          /\ file' = Some(f)
          /\ login' = FromConfig(f)
          /\ io' = io \o <<"call:get_login_details">> \o EnvInfo(env) \o ConfigEffects(f)
    /\ pc' = "login_returned"
    /\ UNCHANGED <<args, env, req, stdin, decision, authed, listing, tty, line, result>>

(* get_login_details when the terminal decides: lines 138-157, 181-199 *)
GldFromTty(ttys) ==
    /\ pc = "get_login_details"
    /\ ~EnvInconsistent(EnvSecret(env), EnvPassword(env))
    /\ NeedOtherSource(EnvSecret(env), EnvPassword(env))
    /\ ~IsSome(args.config_file_str)
    /\ \E t \in ttys :
          /\ tty' = Some(t)
          /\ login' = FromTty(t)
          /\ io' = io \o <<"call:get_login_details">> \o EnvInfo(env) \o TtyEffects(t)
    /\ pc' = "login_returned"
    /\ UNCHANGED <<args, env, req, stdin, decision, authed, listing, file, line, result>>

InitLogin ==
    /\ pc = "get_login_details"
    /\ args \in {[NoArgs EXCEPT !.config_file_str = c] : c \in OptArgs}
    /\ env \in Environments
    /\ req = None
    /\ stdin = StdinBroken
    /\ authed = <<>>
    /\ Fresh

NextLogin == GldFromEnv \/ GldFromConfig(FileStates) \/ GldFromTty(TtyStates)

SpecLogin == InitLogin /\ [][NextLogin]_vars

(* prompt_to_allow called with a request *)
PromptToAllowCall ==
    /\ pc = "prompt_to_allow"
    /\ LET r == PromptToAllow(Unwrap(req), stdin)
       IN  /\ decision' = r.ret
           /\ io' = io \o <<"call:prompt_to_allow">> \o r.out
           /\ line' = r.line
           /\ stdin' = r.rest
    /\ pc' = "prompt_returned"
    /\ UNCHANGED <<args, env, login, req, authed, listing, file, tty, result>>

InitPrompt ==
    /\ pc = "prompt_to_allow"
    /\ args = [NoArgs EXCEPT !.req_str = Some("given")]
    /\ env = [safe_auth_secret |-> None, safe_auth_password |-> None]
    /\ req \in {Some(r) : r \in IpcReqs}
    /\ stdin \in StdinStates
    /\ authed = <<>>
    /\ Fresh

NextPrompt == PromptToAllowCall

SpecPrompt == InitPrompt /\ [][NextPrompt]_vars

(* parsable_list_authed_apps called with a list *)
ParsableListCall ==
    /\ pc = "parsable_list_authed_apps"
    /\ listing' = ParsableListAuthedApps(authed)
    /\ io' = io \o <<"call:parsable_list_authed_apps">>
    /\ pc' = "listed"
    /\ UNCHANGED <<args, env, login, req, stdin, decision, authed, file, tty, line, result>>

InitList ==
    /\ pc = "parsable_list_authed_apps"
    /\ args = [NoArgs EXCEPT !.apps = TRUE]
    /\ env = [safe_auth_secret |-> None, safe_auth_password |-> None]
    /\ req = None
    /\ stdin = StdinBroken
    /\ authed \in AuthedLists
    /\ Fresh

NextList == ParsableListCall

SpecList == InitList /\ [][NextList]_vars

----------------------------------------------------------------------------
(* run *)

EnvOf(s, p) == [safe_auth_secret |-> s, safe_auth_password |-> p]

(* The inputs run is explored with *)
RunEnvironments ==
    {EnvOf(None, None), EnvOf(Some(<<"s">>), Some(<<"p">>)),
     EnvOf(Some(<<"s">>), None), EnvOf(Some(<<>>), Some(<<>>))}
RunFileStates ==
    {FileUnreadable, FileMalformed,
     FileJson([obj |-> TRUE,
               fields |-> [k \in {"secret", "password"} |->
                              Some(JsonString(IF k = "secret" THEN <<"s">> ELSE <<"p">>))]]),
     FileJson([obj |-> TRUE,
               fields |-> [k \in {"secret", "password"} |->
                              IF k = "secret" THEN Some(JsonString(<<"s">>)) ELSE None]])}
RunTtyStates ==
    {[secret |-> Some(<<"s">>), password |-> Some(<<"p">>)],
     [secret |-> Some(<<"s">>), password |-> Some(<<>>)],
     [secret |-> None, password |-> None]}
RunStdinStates == {StdinBroken, StdinWith(<<"y", LF>>), StdinWith(<<"N", LF>>)}
RunAuthedLists ==
    {<<>>,
     <<[app |-> [id |-> Str_a1, name |-> Str_App, vendor |-> Str_V],
        perms |-> <<[cont |-> Str_docs, perms |-> <<"Insert", "Update">>]>>]>>}

(* A faulty variant of Try: the error is dropped and the run goes on *)
TryIgnoringErr(ok, next) == next

(* The ? operator: on Err the function returns, on Ok it goes on *)
Try(ok, next) == IF ok THEN next ELSE "exit"

(* What a ? leaves behind in the record of effects and in the result *)
ErrEvent(ok) == IF ok THEN <<>> ELSE <<"run:err">>
ResultAfter(ok) == IF ok THEN result ELSE "Err"

(* println! under if args.pretty *)
IfPretty(e) == IF args.pretty THEN <<e>> ELSE <<>>

(* line 74: let login_details = get_login_details(&args)?; *)
RunLoginReturned ==
    /\ pc = "login_returned"
    /\ IF login.kind = "Panic"
       THEN /\ pc' = "exit"
            /\ result' = "Panic"
            /\ io' = io
       ELSE LET ok == login.kind = "Ok"
            IN  /\ pc' = Try(ok, "connect")
                /\ result' = ResultAfter(ok)
                /\ io' = io \o ErrEvent(ok)
    /\ UNCHANGED <<args, env, login, req, stdin, decision, authed, listing, file, tty, line>>

(* lines 80-90: create_acc with an invite token, log_in without *)
RunConnect ==
    /\ pc = "connect"
    /\ \E ok \in BOOLEAN :
          /\ io' = io
                   \o (IF IsSome(args.invite)
                       THEN <<"backend:create_acc">>
                            \o (IF ok THEN IfPretty("stdout:account_created") ELSE <<>>)
                       ELSE <<"backend:log_in">>
                            \o (IF ok THEN IfPretty("stdout:logged_in") ELSE <<>>))
                   \o ErrEvent(ok)
          /\ pc' = Try(ok, "authorise")
          /\ result' = ResultAfter(ok)
    /\ UNCHANGED <<args, env, login, req, stdin, decision, authed, listing, file, tty, line>>

(* safe_auth::authorise_app(authenticator, req, prompt_to_allow): the       *)
(* request string is decoded (d is None when that fails), the callback is   *)
(* asked once for the decoded request, and the backend answers (ok) with    *)
(* the response string or an error                                           *)
AuthoriseApp(d, in, ok) ==
    IF ~IsSome(d)
    THEN [ret |-> "Err", out |-> <<"backend:authorise_app">>, decision |-> "none",
          line |-> None, rest |-> in]
    ELSE LET r == PromptToAllow(Unwrap(d), in)
         IN  [ret |-> IF r.ret = "panic" THEN "Panic" ELSE IF ok THEN "Ok" ELSE "Err",
              out |-> <<"backend:authorise_app", "call:prompt_to_allow">> \o r.out,
              decision |-> r.ret, line |-> r.line, rest |-> r.rest]

(* lines 93-99: authorise the application if a request string was given *)
RunAuthorise ==
    /\ pc = "authorise"
    /\ IF ~IsSome(args.req_str)
       THEN /\ pc' = "balance"
            /\ UNCHANGED <<io, req, stdin, decision, line, result>>
       ELSE \E d \in {None} \cup {Some(r) : r \in IpcReqs}, ok \in BOOLEAN :
               LET a == AuthoriseApp(d, stdin, ok)
               IN  /\ req' = d
                   /\ stdin' = a.rest
                   /\ decision' = a.decision
                   /\ line' = a.line
                   /\ IF a.ret = "Panic"
                      THEN /\ pc' = "exit"
                           /\ result' = "Panic"
                           /\ io' = io \o a.out
                      ELSE /\ pc' = Try(a.ret = "Ok", "balance")
                           /\ result' = ResultAfter(a.ret = "Ok")
                           /\ io' = io \o a.out
                                    \o (IF a.ret = "Ok"
                                        THEN IfPretty("stdout:auth_response_label")
                                             \o <<"stdout:auth_response">>
                                        ELSE <<>>)
                                    \o ErrEvent(a.ret = "Ok")
    /\ UNCHANGED <<args, env, login, authed, listing, file, tty>>

(* lines 102-108: the account's balance if requested *)
RunBalance ==
    /\ pc = "balance"
    /\ IF ~args.balance
       THEN /\ pc' = "revoke"
            /\ UNCHANGED <<io, result>>
       ELSE \E ok \in BOOLEAN :
               /\ io' = io \o <<"backend:acc_info">>
                        \o (IF ok THEN IfPretty("stdout:balance_label") \o <<"stdout:balance">>
                            ELSE <<>>)
                        \o ErrEvent(ok)
               /\ pc' = Try(ok, "revoke")
               /\ result' = ResultAfter(ok)
    /\ UNCHANGED <<args, env, login, req, stdin, decision, authed, listing, file, tty, line>>

(* lines 111-116: revoke an application's permissions if requested *)
RunRevoke ==
    /\ pc = "revoke"
    /\ IF ~IsSome(args.app_id)
       THEN /\ pc' = "apps"
            /\ UNCHANGED <<io, result>>
       ELSE \E ok \in BOOLEAN :
               /\ io' = io \o <<"backend:revoke_app">>
                        \o (IF ok THEN IfPretty("stdout:revoked") ELSE <<>>)
                        \o ErrEvent(ok)
               /\ pc' = Try(ok, "apps")
               /\ result' = ResultAfter(ok)
    /\ UNCHANGED <<args, env, login, req, stdin, decision, authed, listing, file, tty, line>>

(* lines 119-126: list the authorised apps if requested *)
RunApps ==
    /\ pc = "apps"
    /\ IF ~args.apps
       THEN /\ pc' = "daemon"
            /\ UNCHANGED <<io, result, authed, listing>>
       ELSE \E ok \in BOOLEAN, authed_apps \in RunAuthedLists :
               /\ pc' = Try(ok, "daemon")
               /\ result' = ResultAfter(ok)
               /\ authed' = IF ok THEN authed_apps ELSE authed
               /\ listing' = IF ok /\ ~args.pretty
                             THEN ParsableListAuthedApps(authed_apps)
                             ELSE listing
               /\ io' = io \o <<"backend:authed_apps">>
                        \o (IF ~ok THEN <<>>
                            ELSE IF args.pretty THEN <<"call:pretty_print_authed_apps">>
                            ELSE <<"call:parsable_list_authed_apps">>)
                        \o ErrEvent(ok)
    /\ UNCHANGED <<args, env, login, req, stdin, decision, file, tty, line>>

(* lines 128-132: serve as a daemon if a port was given, then Ok(()) *)
RunDaemon ==
    /\ pc = "daemon"
    /\ io' = io \o (IF IsSome(args.port) THEN <<"authd:run">> ELSE <<>>)
    /\ pc' = "exit"
    /\ result' = "Ok"
    /\ UNCHANGED <<args, env, login, req, stdin, decision, authed, listing, file, tty, line>>

Init ==
    /\ pc = "get_login_details"
    /\ args \in AllArgs
    /\ env \in RunEnvironments
    /\ req = None
    /\ stdin \in RunStdinStates
    /\ authed = <<>>
    /\ Fresh

Next ==
    \/ GldFromEnv
    \/ GldFromConfig(RunFileStates)
    \/ GldFromTty(RunTtyStates)
    \/ RunLoginReturned
    \/ RunConnect
    \/ RunAuthorise
    \/ RunBalance
    \/ RunRevoke
    \/ RunApps
    \/ RunDaemon

Spec == Init /\ [][Next]_vars

----------------------------------------------------------------------------
(* Properties *)

Did(e) == e \in Range(io)

(* The lines that are "y" once one trailing newline and then one trailing   *)
(* carriage return are stripped and the case is folded                       *)
AcceptedLines ==
    {<<c>> \o e : c \in {"y", "Y"}, e \in {<<>>, <<LF>>, <<CR>>, <<CR, LF>>}}

(* C1: for a request of variant Auth, Containers or ShareMData and a line   *)
(* read from the input, prompt_to_allow returns true if and only if the     *)
(* line, stripped of one trailing newline and then of one trailing carriage *)
(* return and case-folded, is "y"; for every other line it returns false.   *)
C1_AllowIffExactlyY ==
    (pc = "prompt_returned" /\ Unwrap(req) # "Unregistered" /\ IsSome(line))
        => /\ decision \in {"true", "false"}
           /\ decision = "true" <=> Unwrap(line) \in AcceptedLines

C1_Witness ==
    /\ pc = "prompt_returned"
    /\ req = Some("Auth")
    /\ line = Some(<<"Y", CR, LF>>)
    /\ decision = "true"

(* C2: when the read of the answer fails, prompt_to_allow returns false to  *)
(* its caller; it does not abort.                                            *)
C2_ReadFailureDenies ==
    (pc = "prompt_returned" /\ Unwrap(req) # "Unregistered" /\ ~stdin.ok)
        => decision = "false"

(* C3: for a request of variant Unregistered, prompt_to_allow returns true  *)
(* at once: nothing is rendered, no question is printed and nothing is read *)
(* from the input, whatever the input is.                                    *)
C3_UnregisteredAllowedUnasked ==
    (pc = "prompt_returned" /\ req = Some("Unregistered"))
        => /\ decision = "true"
           /\ io = <<"call:prompt_to_allow">>
           /\ line = None

C3_Witness ==
    /\ pc = "prompt_returned"
    /\ req = Some("Unregistered")
    /\ ~stdin.ok
    /\ decision = "true"

IsNonEmptyString(o) == IsSome(o) /\ Unwrap(o).t = "String" /\ ~is_empty(Unwrap(o).s)

NoTtyRead == tty = None /\ ~Did("tty:read_secret") /\ ~Did("tty:read_password")
NoFileOpened == file = None /\ ~Did("fs:open_config")

(* C4: with neither environment variable set and a config file that is the  *)
(* object {"secret": s, "password": p} for non-empty strings s and p,       *)
(* get_login_details succeeds with secret s and password p, and the         *)
(* terminal is never asked.                                                  *)
C4_ConfigValuesReturned ==
    (/\ pc = "login_returned"
     /\ env = EnvOf(None, None)
     /\ IsSome(args.config_file_str)
     /\ IsSome(file)
     /\ Unwrap(file).st = "json"
     /\ Unwrap(file).json.obj
     /\ IsNonEmptyString(Unwrap(file).json.fields["secret"])
     /\ IsNonEmptyString(Unwrap(file).json.fields["password"]))
        => /\ login = OkDetails(Unwrap(Unwrap(file).json.fields["secret"]).s,
                                Unwrap(Unwrap(file).json.fields["password"]).s)
           /\ NoTtyRead

IsEmptyString(o) == IsSome(o) /\ Unwrap(o).t = "String" /\ is_empty(Unwrap(o).s)

(* The source that was chosen supplied both fields, one of them empty *)
ConfigSuppliedEmpty ==
    /\ IsSome(file)
    /\ Unwrap(file).st = "json"
    /\ IsSome(JsonGet(Unwrap(file).json, "secret"))
    /\ IsSome(JsonGet(Unwrap(file).json, "password"))
    /\ \/ IsEmptyString(JsonGet(Unwrap(file).json, "secret"))
       \/ IsEmptyString(JsonGet(Unwrap(file).json, "password"))
TtySuppliedEmpty ==
    /\ IsSome(tty)
    /\ IsSome(Unwrap(tty).secret)
    /\ IsSome(Unwrap(tty).password)
    /\ is_empty(Unwrap(Unwrap(tty).secret)) \/ is_empty(Unwrap(Unwrap(tty).password))

(* C5: get_login_details never succeeds with an empty secret or password:   *)
(* when the chosen source supplies the empty string for either field, the   *)
(* result is the error EmptyCredential.                                      *)
C5_EmptyCredentialRejected ==
    pc = "login_returned"
        => /\ login.kind = "Ok" => ~is_empty(login.secret) /\ ~is_empty(login.password)
           /\ (ConfigSuppliedEmpty \/ TtySuppliedEmpty)
                 => login = ErrDetails("EmptyCredential")

SetNonEmpty(o) == IsSome(o) /\ ~is_empty(Unwrap(o))

(* C6: when exactly one of the two environment variables is set and         *)
(* non-empty, get_login_details fails with InconsistentEnv, with or without *)
(* a config path, and neither opens the config file nor asks the terminal.  *)
C6_LoneEnvValueRejected ==
    (/\ pc = "login_returned"
     /\ SetNonEmpty(env.safe_auth_secret) # SetNonEmpty(env.safe_auth_password))
        => /\ login = ErrDetails("InconsistentEnv")
           /\ NoFileOpened
           /\ NoTtyRead

C6_Witness ==
    /\ pc = "login_returned"
    /\ env = EnvOf(Some(<<>>), Some(<<"p">>))
    /\ IsSome(args.config_file_str)
    /\ login = ErrDetails("InconsistentEnv")

(* C7: when both environment variables are set and non-empty,               *)
(* get_login_details returns exactly those two values, whatever the config  *)
(* path is: the config file is not opened and the terminal is not asked.    *)
C7_EnvPairWins ==
    (/\ pc = "login_returned"
     /\ SetNonEmpty(env.safe_auth_secret)
     /\ SetNonEmpty(env.safe_auth_password))
        => /\ login = OkDetails(Unwrap(env.safe_auth_secret), Unwrap(env.safe_auth_password))
           /\ NoFileOpened
           /\ NoTtyRead

C7_Witness ==
    /\ pc = "login_returned"
    /\ env = EnvOf(Some(<<"s">>), Some(<<"p">>))
    /\ IsSome(args.config_file_str)
    /\ login = OkDetails(<<"s">>, <<"p">>)

(* C8: with no usable environment pair (neither variable set and           *)
(* non-empty) and a config path whose JSON object lacks the secret or the   *)
(* password key, get_login_details fails with ConfigFieldMissing and the    *)
(* terminal is never asked.                                                  *)
C8_MissingConfigFieldIsFatal ==
    (/\ pc = "login_returned"
     /\ ~SetNonEmpty(env.safe_auth_secret)
     /\ ~SetNonEmpty(env.safe_auth_password)
     /\ IsSome(args.config_file_str)
     /\ IsSome(file)
     /\ Unwrap(file).st = "json"
     /\ Unwrap(file).json.obj
     /\ \/ ~IsSome(Unwrap(file).json.fields["secret"])
        \/ ~IsSome(Unwrap(file).json.fields["password"]))
        => /\ login = ErrDetails("ConfigFieldMissing")
           /\ NoTtyRead

C8_Witness ==
    /\ pc = "login_returned"
    /\ env = EnvOf(None, None)
    /\ IsSome(file)
    /\ Unwrap(file).st = "json"
    /\ Unwrap(file).json.obj
    /\ Unwrap(file).json.fields["secret"] = Some(JsonString(<<"s">>))
    /\ Unwrap(file).json.fields["password"] = None
    /\ login = ErrDetails("ConfigFieldMissing")

RECURSIVE Concat(_)
Concat(ts) == IF ts = <<>> THEN <<>> ELSE Head(ts) \o Concat(Tail(ts))

(* The texts ts with sep between each two neighbours and nowhere else *)
JoinWith(sep, ts) ==
    IF ts = <<>> THEN <<>>
    ELSE ts[1] \o Concat([i \in 1..(Len(ts) - 1) |-> sep \o ts[i + 1]])

(* id<TAB>name<TAB>vendor<TAB>[container:perm|perm,...], the name, the      *)
(* vendor and the container names bare, or quoted as {:?} writes a string   *)
ListLine(quoted, a) ==
    LET Q(t) == IF quoted THEN StrDebug(t) ELSE t
    IN  a.app.id \o <<TAB>> \o Q(a.app.name) \o <<TAB>> \o Q(a.app.vendor) \o <<TAB, "[">>
        \o JoinWith(<<",">>,
                    [i \in 1..Len(a.perms) |->
                        Q(a.perms[i].cont) \o <<":">>
                        \o JoinWith(<<"|">>,
                                    [j \in 1..Len(a.perms[i].perms) |->
                                        PermDebug(a.perms[i].perms[j])])])
        \o <<"]">>

ExampleApp ==
    [app |-> [id |-> Str_a1, name |-> Str_App, vendor |-> Str_V],
     perms |-> <<[cont |-> Str_docs, perms |-> <<"Insert", "Update">>]>>]

EscapedApp ==
    [app |-> [id |-> <<"b">>, name |-> <<"x", QUOTE>>, vendor |-> <<"W", TAB>>],
     perms |-> <<>>]

(* a1<TAB>App<TAB>V<TAB>[docs:Insert|Update] *)
ExampleBareLine ==
    <<"a", "1", TAB, "A", "p", "p", TAB, "V", TAB, "[", "d", "o", "c", "s", ":",
      "I", "n", "s", "e", "r", "t", "|", "U", "p", "d", "a", "t", "e", "]">>

(* a1<TAB>"App"<TAB>"V"<TAB>["docs":Insert|Update] *)
ExampleQuotedLine ==
    <<"a", "1", TAB, QUOTE, "A", "p", "p", QUOTE, TAB, QUOTE, "V", QUOTE, TAB,
      "[", QUOTE, "d", "o", "c", "s", QUOTE, ":",
      "I", "n", "s", "e", "r", "t", "|", "U", "p", "d", "a", "t", "e", "]">>

(* b<TAB>"x\""<TAB>"W\t"<TAB>[] *)
EscapedQuotedLine ==
    <<"b", TAB, QUOTE, "x", BACKSLASH, QUOTE, QUOTE, TAB,
      QUOTE, "W", BACKSLASH, "t", QUOTE, TAB, "[", "]">>

(* C9, as the specification states it: in Parsable mode the output is, for  *)
(* each app in input order, one line id<TAB>name<TAB>vendor<TAB>            *)
(* [container:perm|perm,...] of the bare field values, with no separator    *)
(* after the last element of a group; for the one app a1, App, V,           *)
(* docs: {Insert, Update} the whole output is                               *)
(* a1<TAB>App<TAB>V<TAB>[docs:Insert|Update].  (A newline after the last    *)
(* line is accepted either way.)                                             *)
C9_BareLinesOnly ==
    pc = "listed"
        => LET lines == [i \in 1..Len(authed) |-> ListLine(FALSE, authed[i])]
           IN  /\ listing \in {JoinWith(<<LF>>, lines),
                               Concat([i \in 1..Len(lines) |-> lines[i] \o <<LF>>])}
               /\ authed = <<ExampleApp>>
                    => listing \in {ExampleBareLine, ExampleBareLine \o <<LF>>}

(* C9, amended: in Parsable mode the output is the header line              *)
(* APP ID<TAB>NAME<TAB>VENDOR<TAB>PERMISSIONS and then, for each app in     *)
(* input order, one line id<TAB>"name"<TAB>"vendor"<TAB>                    *)
(* ["container":perm|perm,...]: the id bare, the name, the vendor and the   *)
(* container names quoted and escaped as Rust's {:?} writes a string,       *)
(* containers separated by ',' and permissions by '|', no separator after   *)
(* the last element of a group, every line ended by a newline; for the one  *)
(* app a1, App, V, docs: {Insert, Update} the output is the header line and *)
(* a1<TAB>"App"<TAB>"V"<TAB>["docs":Insert|Update].                         *)
C9_HeaderAndQuotedLines ==
    pc = "listed"
        => LET lines == [i \in 1..Len(authed) |-> ListLine(TRUE, authed[i])]
           IN  /\ listing = ListHeader \o <<LF>>
                            \o Concat([i \in 1..Len(lines) |-> lines[i] \o <<LF>>])
               /\ authed = <<ExampleApp>>
                    => listing = ListHeader \o <<LF>> \o ExampleQuotedLine \o <<LF>>
               /\ authed = <<EscapedApp>>
                    => listing = ListHeader \o <<LF>> \o EscapedQuotedLine \o <<LF>>

C9_Witness ==
    /\ pc = "listed"
    /\ Len(authed) = 2
    /\ authed[2] = ExampleApp
    /\ Len(authed[1].perms) = 2
    /\ listing # <<>>

(* The steps the orchestrator's order is about, and their places in it *)
StepEvents ==
    {"call:get_login_details", "backend:create_acc", "backend:log_in",
     "call:prompt_to_allow", "call:pretty_print_authed_apps",
     "call:parsable_list_authed_apps"}
StepRank(e) ==
    CASE e = "call:get_login_details" -> 1
      [] e \in {"backend:create_acc", "backend:log_in"} -> 2
      [] e = "call:prompt_to_allow" -> 3
      [] e \in {"call:pretty_print_authed_apps", "call:parsable_list_authed_apps"} -> 4
IsStep(e) == e \in StepEvents
Steps == SelectSeq(io, IsStep)

(* Everything run does after the credentials are resolved *)
AfterLoginEvents ==
    {"backend:create_acc", "backend:log_in", "backend:authorise_app",
     "call:prompt_to_allow", "backend:acc_info", "backend:revoke_app",
     "backend:authed_apps", "call:pretty_print_authed_apps",
     "call:parsable_list_authed_apps", "authd:run"}

(* C10: in every run the steps come in the order credential resolution,     *)
(* login or account creation, consent prompt, app listing, each at most     *)
(* once and none after a step that failed; a credential error ends the run  *)
(* before any backend call; the consent prompt is reached only when a       *)
(* request string was given and the listing only when it was asked for.     *)
C10_FixedOrderOfSteps ==
    /\ \A i, j \in 1..Len(Steps) : i < j => StepRank(Steps[i]) < StepRank(Steps[j])
    /\ \A i \in 1..Len(io) : io[i] \in {"run:err", "panic"} => i = Len(io)
    /\ login.kind \in {"Err", "Panic"} => \A e \in AfterLoginEvents : ~Did(e)
    /\ Len(Steps) > 0 => Steps[1] = "call:get_login_details"
    /\ Did("call:prompt_to_allow") => IsSome(args.req_str)
    /\ (Did("call:pretty_print_authed_apps") \/ Did("call:parsable_list_authed_apps"))
          => args.apps

C10_Witness ==
    /\ pc = "exit"
    /\ result = "Ok"
    /\ Len(Steps) = 4
    /\ decision = "true"

====
